---- MODULE Spec2Model ----
(***************************************************************************)
(* Google Earth historical-imagery capture scripts.                        *)
(*                                                                         *)
(* Three variants of captureHistoricalImagery are modelled side by side:   *)
(*   "simplified"  src/standalone.js 1228-1407                             *)
(*   "refined"     src/standalone.js 1495-1707                             *)
(*   "enhanced"    src/unnamed/part_002 167-645                            *)
(* together with the pure helpers they call (compareScreenshots,           *)
(* hasSignificantChanges, estimateYearFromPosition, extractDateFromImage,  *)
(* formatDateForFilename).                                                 *)
(*                                                                         *)
(* Buffers are represented by their length (the only property the change   *)
(* detector reads).  Texts are sequences of one-character strings.         *)
(* JavaScript doubles are represented exactly by integer fractions; the    *)
(* comparisons below are the integer forms of the floating-point tests.    *)
(*                                                                         *)
(* Spec drives a whole session.  SpecCompare, SpecDate, SpecYear and       *)
(* SpecReport apply one helper each (change detector, date parsing, year   *)
(* estimate, metadata and gallery) to inputs drawn from bounded sets.      *)
(***************************************************************************)
EXTENDS Integers, Sequences, FiniteSets, TLC

VARIABLES
    variant,              \* which script is running
    pc,                   \* position of the session in captureHistoricalImagery
    browser,              \* "none" | "open" | "closed"
    i,                    \* loop index of the scan loop (iterations completed)
    baselineData,         \* length of the rolling baseline buffer
    capturedImages,       \* unique frames recorded so far (simplified, enhanced)
    capturedDates,        \* Map date -> info, in insertion order (refined)
    retryCount,           \* activation retry counter (refined)
    historyModeActivated, \* activation confirmed
    clicks,               \* timeline clicks issued so far, in order
    lastProbe,            \* what the latest completed probe computed
    pending,              \* error travelling out of the catch block
    outcome,              \* "pending" | "resolved" | "rejected"
    exitCode,             \* process exit code chosen by the top-level runner
    files,                \* session-level artefacts written to OUTPUT_DIR
    metadata,             \* the record saved as metadata.json
    report,               \* the gallery document written at the end
    raised,               \* first error raised in the session ("none" if none)
    failedAt,             \* 1-based position whose probe threw (0 if none)
    partial,              \* unique samples held when the scan aborted
    disk,                 \* image files of the scan in OUTPUT_DIR: name -> content
    iconClicks,           \* clicks made on the history icon
    detected,             \* extractedDate || 'None detected' of the latest probe (refined)
    bufA, bufB, cmpOut,   \* harness of the change detector
    dateIn, dateOut,      \* harness of the date helpers
    pixelX, yearOut,      \* harness of estimateYearFromPosition
    samples, bundle,      \* harness of the metadata and report builders
    stepI, stepAt,        \* harness of the loop body: loop index, next statement
    inflight, settled     \* ... its asynchronous calls: pending, completed

vars == <<variant, pc, browser, i, baselineData, capturedImages, capturedDates,
          retryCount, historyModeActivated, clicks, lastProbe, pending,
          outcome, exitCode, files, metadata, report, raised, failedAt,
          partial, disk, iconClicks, detected, bufA, bufB, cmpOut, dateIn,
          dateOut, pixelX, yearOut, samples, bundle, stepI, stepAt, inflight,
          settled>>

sessionVars == <<variant, pc, browser, i, baselineData, capturedImages,
                 capturedDates, retryCount, historyModeActivated, clicks,
                 lastProbe, pending, outcome, exitCode, files, metadata,
                 report, raised, failedAt, partial, disk, iconClicks,
                 detected>>

cmpVars == <<bufA, bufB, cmpOut>>

dateVars == <<dateIn, dateOut>>

yearVars == <<pixelX, yearOut>>

reportVars == <<samples, bundle>>

stepVars == <<stepI, stepAt, inflight, settled>>

----------------------------------------------------------------------------
(* Bounds of the model *)

\* longest buffer handed to the change detector by its harness
MaxBufLen == 204

\* most unique frames the harness of the report builders hands them
MaxSamples == 4

\* how far outside the calibration range [timelineStartX, timelineEndX] the
\* harness of estimateYearFromPosition takes its positions
PixelMargin == 450

\* the imagery shown by the environment changes only within the first
\* ChangeWindow timeline positions of a scan
ChangeWindow == 3

\* most dates and words the harness of the extraction patterns puts in one
\* OCR text
MaxPieces == 3

\* number of loop iterations the harness of the loop body follows
MaxStepPositions == 4

\* longest run of separator characters the harness of the extraction
\* patterns puts between the parts of a month-name date
MaxSepLen == 2

----------------------------------------------------------------------------
(* Characters and texts *)

Digits == <<"0", "1", "2", "3", "4", "5", "6", "7", "8", "9">>

IsDigit(c) == c \in {"0", "1", "2", "3", "4", "5", "6", "7", "8", "9"}

Lower == {"a", "b", "c", "d", "e", "f", "g", "h", "i", "j", "k", "l", "m",
          "n", "o", "p", "q", "r", "s", "t", "u", "v", "w", "x", "y", "z"}

Upper == {"A", "B", "C", "D", "E", "F", "G", "H", "I", "J", "K", "L", "M",
          "N", "O", "P", "Q", "R", "S", "T", "U", "V", "W", "X", "Y", "Z"}

IsLetter(c) == c \in Lower \cup Upper

\* \s of a JavaScript regular expression, over the characters used here
IsSpace(c) == c \in {" ", "\n"}

ToLower(c) ==
    CASE c = "A" -> "a" [] c = "B" -> "b" [] c = "C" -> "c" [] c = "D" -> "d"
      [] c = "E" -> "e" [] c = "F" -> "f" [] c = "G" -> "g" [] c = "H" -> "h"
      [] c = "I" -> "i" [] c = "J" -> "j" [] c = "K" -> "k" [] c = "L" -> "l"
      [] c = "M" -> "m" [] c = "N" -> "n" [] c = "O" -> "o" [] c = "P" -> "p"
      [] c = "Q" -> "q" [] c = "R" -> "r" [] c = "S" -> "s" [] c = "T" -> "t"
      [] c = "U" -> "u" [] c = "V" -> "v" [] c = "W" -> "w" [] c = "X" -> "x"
      [] c = "Y" -> "y" [] c = "Z" -> "z" [] OTHER -> c

LowerText(t) == [k \in 1..Len(t) |-> ToLower(t[k])]

\* the character at index k, or "" past either end
At(t, k) == IF k >= 1 /\ k <= Len(t) THEN t[k] ELSE ""

\* String.prototype.trim
Trim(t) ==
    IF \A k \in 1..Len(t) : IsSpace(t[k]) THEN <<>>
    ELSE LET a == CHOOSE k \in 1..Len(t) :
                      ~IsSpace(t[k]) /\ \A j \in 1..(k-1) : IsSpace(t[j])
             b == CHOOSE k \in 1..Len(t) :
                      ~IsSpace(t[k]) /\ \A j \in (k+1)..Len(t) : IsSpace(t[j])
         IN  SubSeq(t, a, b)

\* decimal digits of a non-negative integer, as `${n}` prints them
RECURSIVE NatText(_)
NatText(n) ==
    IF n < 10 THEN <<Digits[n + 1]>>
    ELSE NatText(n \div 10) \o <<Digits[(n % 10) + 1]>>

\* String.prototype.padStart(2, '0')
PadStart2(t) == IF Len(t) < 2 THEN <<"0">> \o t ELSE t

NULL == <<"null">>

----------------------------------------------------------------------------
(* Regular expressions of the date helpers *)

\* number of consecutive characters of class C starting at index s (a greedy
\* C* ; none of the patterns below can succeed after giving a character back)
Run(t, s, C) ==
    CHOOSE n \in 0..Len(t) :
        /\ \A k \in s..(s + n - 1) : At(t, k) \in C
        /\ At(t, s + n) \notin C

NoMatch == [ok |-> FALSE]

\* \d{1,2} followed by the one-character class Follow: digits consumed, 0 if
\* it cannot match at s
Digits12(t, s, Follow) ==
    IF ~IsDigit(At(t, s)) THEN 0
    ELSE IF At(t, s + 1) \in Follow THEN 1
    ELSE IF IsDigit(At(t, s + 1)) /\ At(t, s + 2) \in Follow THEN 2
    ELSE 0

FourDigits(t, s) == \A k \in s..(s + 3) : IsDigit(At(t, k))

\* (\d{1,2})\/(\d{1,2})\/(\d{4}) anchored at index s
SlashAt(t, s) ==
    LET n1 == Digits12(t, s, {"/"})
        p  == s + n1 + 1
        n2 == Digits12(t, p, {"/"})
        q  == p + n2 + 1
    IN  IF n1 > 0 /\ n2 > 0 /\ FourDigits(t, q)
        THEN [ok |-> TRUE, from |-> s, to |-> q + 3,
              g1 |-> SubSeq(t, s, s + n1 - 1),
              g2 |-> SubSeq(t, p, p + n2 - 1),
              g3 |-> SubSeq(t, q, q + 3)]
        ELSE NoMatch

\* the leftmost of the indices at which a pattern matches
First(S) == CHOOSE s \in S : \A r \in S : s <= r

\* datePattern / regexSlash: /(\d{1,2}\/\d{1,2}\/\d{4})/
datePattern(t) ==
    LET S == {s \in 1..Len(t) : SlashAt(t, s).ok}
    IN  IF S = {} THEN NoMatch ELSE SlashAt(t, First(S))

\* olderPattern: /older[\s~]+(\d{1,2}\/\d{1,2}\/\d{4})/ anchored at index s
OlderAt(t, s) ==
    LET r == Run(t, s + 5, {" ", "\n", "~"})
        d == SlashAt(t, s + 5 + r)
    IN  IF /\ s + 4 <= Len(t)
           /\ SubSeq(t, s, s + 4) = <<"o", "l", "d", "e", "r">>
           /\ r >= 1
           /\ d.ok
        THEN [ok |-> TRUE, from |-> s, to |-> d.to,
              g1 |-> SubSeq(t, d.from, d.to)]
        ELSE NoMatch

olderPattern(t) ==
    LET S == {s \in 1..Len(t) : OlderAt(t, s).ok}
    IN  IF S = {} THEN NoMatch ELSE OlderAt(t, First(S))

MonthAbbr == {<<"j", "a", "n">>, <<"f", "e", "b">>, <<"m", "a", "r">>,
              <<"a", "p", "r">>, <<"m", "a", "y">>, <<"j", "u", "n">>,
              <<"j", "u", "l">>, <<"a", "u", "g">>, <<"s", "e", "p">>,
              <<"o", "c", "t">>, <<"n", "o", "v">>, <<"d", "e", "c">>}

SepSet == {" ", "\n", ","}

\* monthPattern:
\* /(Jan|Feb|...|Dec)[\s,]+\d{1,2}[\s,]+\d{4}/i anchored at index s
MonthAt(t, s) ==
    LET r1 == Run(t, s + 3, SepSet)
        p  == s + 3 + r1
        nd == Digits12(t, p, SepSet)
        r2 == Run(t, p + nd, SepSet)
        q  == p + nd + r2
    IN  IF /\ s + 2 <= Len(t)
           /\ LowerText(SubSeq(t, s, s + 2)) \in MonthAbbr
           /\ r1 >= 1
           /\ nd > 0
           /\ FourDigits(t, q)
        THEN [ok |-> TRUE, from |-> s, to |-> q + 3]
        ELSE NoMatch

monthPattern(t) ==
    LET S == {s \in 1..Len(t) : MonthAt(t, s).ok}
    IN  IF S = {} THEN NoMatch ELSE MonthAt(t, First(S))

\* regexMonth: /([a-z]{3})[a-z]*\s+(\d{1,2})[,\s]+(\d{4})/i anchored at s
RegexMonthAt(t, s) ==
    LET l  == Run(t, s + 3, Lower \cup Upper)
        w  == Run(t, s + 3 + l, {" ", "\n"})
        p  == s + 3 + l + w
        nd == Digits12(t, p, SepSet)
        r2 == Run(t, p + nd, SepSet)
        q  == p + nd + r2
    IN  IF /\ \A k \in s..(s + 2) : IsLetter(At(t, k))
           /\ w >= 1
           /\ nd > 0
           /\ FourDigits(t, q)
        THEN [ok |-> TRUE, from |-> s, to |-> q + 3,
              g1 |-> SubSeq(t, s, s + 2),
              g2 |-> SubSeq(t, p, p + nd - 1),
              g3 |-> SubSeq(t, q, q + 3)]
        ELSE NoMatch

regexMonth(t) ==
    LET S == {s \in 1..Len(t) : RegexMonthAt(t, s).ok}
    IN  IF S = {} THEN NoMatch ELSE RegexMonthAt(t, First(S))

monthNames(m) ==
    CASE m = <<"j", "a", "n">> -> <<"0", "1">>
      [] m = <<"f", "e", "b">> -> <<"0", "2">>
      [] m = <<"m", "a", "r">> -> <<"0", "3">>
      [] m = <<"a", "p", "r">> -> <<"0", "4">>
      [] m = <<"m", "a", "y">> -> <<"0", "5">>
      [] m = <<"j", "u", "n">> -> <<"0", "6">>
      [] m = <<"j", "u", "l">> -> <<"0", "7">>
      [] m = <<"a", "u", "g">> -> <<"0", "8">>
      [] m = <<"s", "e", "p">> -> <<"0", "9">>
      [] m = <<"o", "c", "t">> -> <<"1", "0">>
      [] m = <<"n", "o", "v">> -> <<"1", "1">>
      [] m = <<"d", "e", "c">> -> <<"1", "2">>
      [] OTHER -> <<"u", "n", "d", "e", "f", "i", "n", "e", "d">>

----------------------------------------------------------------------------
(* Date helpers *)

IsFilenameChar(c) == IsLetter(c) \/ IsDigit(c) \/ c \in {"-", "_"}

\* dateString.replace(/[\/\s,:]/g, '-').replace(/[^a-zA-Z0-9-_]/g, '')
CleanForFilename(t) ==
    SelectSeq([k \in 1..Len(t) |->
                  IF t[k] \in {"/", " ", "\n", ",", ":"} THEN "-" ELSE t[k]],
              IsFilenameChar)

\* month and day left as matched, without padStart
formatDateForFilenameUnpadded(dateString) ==
    IF dateString = NULL \/ dateString = <<>>
    THEN <<"u", "n", "k", "n", "o", "w", "n", "_", "d", "a", "t", "e">>
    ELSE LET sl == datePattern(dateString)
             mo == regexMonth(dateString)
         IN  IF sl.ok
             THEN sl.g3 \o <<"-">> \o sl.g1 \o <<"-">> \o sl.g2
             ELSE IF mo.ok
             THEN mo.g3 \o <<"-">> \o monthNames(LowerText(mo.g1))
                        \o <<"-">> \o mo.g2
             ELSE CleanForFilename(dateString)

\* formatDateForFilename (enhanced variant)
formatDateForFilename(dateString) ==
    IF dateString = NULL \/ dateString = <<>>
    THEN <<"u", "n", "k", "n", "o", "w", "n", "_", "d", "a", "t", "e">>
    ELSE LET sl == datePattern(dateString)
             mo == regexMonth(dateString)
         IN  IF sl.ok
             THEN sl.g3 \o <<"-">> \o PadStart2(sl.g1) \o <<"-">> \o PadStart2(sl.g2)
             ELSE IF mo.ok
             THEN mo.g3 \o <<"-">> \o monthNames(LowerText(mo.g1))
                        \o <<"-">> \o PadStart2(mo.g2)
             ELSE CleanForFilename(dateString)

\* the outcome of the OCR engine on one crop: it throws, or it yields a text
OcrThrows == [threw |-> TRUE]

OcrText(t) == [threw |-> FALSE, text |-> t]

\* the unmatched text handed back as the date, as the refined variant does
extractDateFromImageRawAsDate(ocr) ==
    IF ocr.threw
    THEN [date |-> NULL, raw |-> NULL, error |-> TRUE]
    ELSE LET text       == ocr.text
             olderMatch == olderPattern(text)
             dateMatch  == datePattern(text)
             monthMatch == monthPattern(text)
         IN  IF olderMatch.ok
             THEN [date |-> olderMatch.g1, raw |-> Trim(text), error |-> FALSE]
             ELSE IF dateMatch.ok
             THEN [date |-> SubSeq(text, dateMatch.from, dateMatch.to),
                   raw |-> Trim(text), error |-> FALSE]
             ELSE IF monthMatch.ok
             THEN [date |-> SubSeq(text, monthMatch.from, monthMatch.to),
                   raw |-> Trim(text), error |-> FALSE]
             ELSE [date |-> Trim(text), raw |-> Trim(text), error |-> FALSE]

\* the month-name pattern tried before the two slash patterns
extractDateFromImageMonthFirst(ocr) ==
    IF ocr.threw
    THEN [date |-> NULL, raw |-> NULL, error |-> TRUE]
    ELSE LET text       == ocr.text
             olderMatch == olderPattern(text)
             dateMatch  == datePattern(text)
             monthMatch == monthPattern(text)
         IN  IF monthMatch.ok
             THEN [date |-> SubSeq(text, monthMatch.from, monthMatch.to),
                   raw |-> Trim(text), error |-> FALSE]
             ELSE IF olderMatch.ok
             THEN [date |-> olderMatch.g1, raw |-> Trim(text), error |-> FALSE]
             ELSE IF dateMatch.ok
             THEN [date |-> SubSeq(text, dateMatch.from, dateMatch.to),
                   raw |-> Trim(text), error |-> FALSE]
             ELSE [date |-> NULL, raw |-> Trim(text), error |-> FALSE]

\* extractDateFromImage (enhanced variant): the try body and the catch
extractDateFromImage(ocr) ==
    IF ocr.threw
    THEN [date |-> NULL, raw |-> NULL, error |-> TRUE]
    ELSE LET text       == ocr.text
             olderMatch == olderPattern(text)
             dateMatch  == datePattern(text)
             monthMatch == monthPattern(text)
         IN  IF olderMatch.ok
             THEN [date |-> olderMatch.g1, raw |-> Trim(text), error |-> FALSE]
             ELSE IF dateMatch.ok
             THEN [date |-> SubSeq(text, dateMatch.from, dateMatch.to),
                   raw |-> Trim(text), error |-> FALSE]
             ELSE IF monthMatch.ok
             THEN [date |-> SubSeq(text, monthMatch.from, monthMatch.to),
                   raw |-> Trim(text), error |-> FALSE]
             ELSE [date |-> NULL, raw |-> Trim(text), error |-> FALSE]

\* `est_${estimatedYear}`
EstLabel(estimatedYear) == <<"e", "s", "t", "_">> \o NatText(estimatedYear)

\* the estimate used whenever there is one
formattedDateEstimateFirst(ocrResult, estimatedYear) ==
    EstLabel(estimatedYear)

\* the ternary dropped: the date always formatted
formattedDateAlwaysFormats(ocrResult, estimatedYear) ==
    formatDateForFilename(ocrResult.date)

\* formattedDate of the scan loop: ocrResult.date ? format(date) : est label
formattedDateOf(ocrResult, estimatedYear) ==
    IF ocrResult.date # NULL
    THEN formatDateForFilename(ocrResult.date)
    ELSE EstLabel(estimatedYear)

----------------------------------------------------------------------------
(* Change detector *)

Abs(n) == IF n < 0 THEN -n ELSE n

\* (sizeDiff / before.length) * 100 as the fraction num/den; den = 0 stands
\* for the double the division by zero yields: NaN (num = 0) or Infinity
PercentDiff(before, after) ==
    [num |-> Abs(before - after) * 100, den |-> before]

\* percentDiff > 0.5
OverHalfPercent(pd) ==
    IF pd.den = 0 THEN pd.num > 0 ELSE 2 * pd.num > pd.den

\* percentDiff < 0.5
UnderHalfPercent(pd) ==
    IF pd.den = 0 THEN FALSE ELSE 2 * pd.num < pd.den

\* percentDiff > 1
OverOnePercent(pd) ==
    IF pd.den = 0 THEN pd.num > 0 ELSE pd.num > pd.den

compareScreenshotsInverted(before, after) ==
    [percentDiff |-> PercentDiff(before, after),
     hasSignificantChange |-> UnderHalfPercent(PercentDiff(before, after))]

\* the difference taken relative to after.length
compareScreenshotsByAfter(before, after) ==
    [percentDiff |-> PercentDiff(after, before),
     hasSignificantChange |-> OverHalfPercent(PercentDiff(after, before))]

\* percentDiff >= 0.5 in place of percentDiff > 0.5
compareScreenshotsInclusive(before, after) ==
    [percentDiff |-> PercentDiff(before, after),
     hasSignificantChange |->
         IF before = 0 THEN after > 0
         ELSE 2 * PercentDiff(before, after).num >= PercentDiff(before, after).den]

\* compareScreenshots (simplified and enhanced variants)
compareScreenshots(before, after) ==
    [percentDiff |-> PercentDiff(before, after),
     hasSignificantChange |-> OverHalfPercent(PercentDiff(before, after))]

\* hasSignificantChanges (exploration script)
hasSignificantChanges(before, after) ==
    OverOnePercent(PercentDiff(before, after))

----------------------------------------------------------------------------
(* Timeline geometry *)

\* Math.round(a / b) for b > 0: halves round towards +Infinity
Round(a, b) == (2 * a + b) \div (2 * b)

timelineStartX == 400

timelineEndX == 1600

startYear == 2002

endYear == 2024

\* Math.floor in place of Math.round
estimateYearFromPositionFloor(x) ==
    LET yearSpan  == endYear - startYear
        pixelSpan == timelineEndX - timelineStartX
    IN  startYear + (((x - timelineStartX) * yearSpan) \div pixelSpan)

\* the distance from timelineStartX in place of the signed offset
estimateYearFromPositionAbs(x) ==
    LET yearSpan  == endYear - startYear
        pixelSpan == timelineEndX - timelineStartX
    IN  startYear + Round(Abs(x - timelineStartX) * yearSpan, pixelSpan)

\* estimateYearFromPosition (enhanced variant)
estimateYearFromPosition(x) ==
    LET yearSpan  == endYear - startYear
        pixelSpan == timelineEndX - timelineStartX
        \* (x - timelineStartX) / (pixelSpan / yearSpan)
        yearOffset == Round((x - timelineStartX) * yearSpan, pixelSpan)
    IN  startYear + yearOffset

Variants == {"simplified", "enhanced", "refined"}

numPoints(v) == IF v = "simplified" THEN 20 ELSE 30

\* the x the scan starts from: timelineStart, or timelineStartX in the refined
\* variant
timelineStart(v) ==
    CASE v = "simplified" -> 1200
      [] v = "enhanced"   -> 1100
      [] v = "refined"    -> timelineStartX

\* intervalWidth taken between numPoints - 1 gaps, the last point on
\* timelineEndX
PointXToEnd(v, k) ==
    Round(timelineStart(v) * (numPoints(v) - 1) + k * (timelineEndX - timelineStart(v)),
          numPoints(v) - 1)

\* Math.round(timelineStart + (k * intervalWidth)), k the 0-based loop index,
\* intervalWidth = (timelineEndX - timelineStart) / numPoints
PointX(v, k) ==
    Round(timelineStart(v) * numPoints(v) + k * (timelineEndX - timelineStart(v)),
          numPoints(v))

\* i <= numPoints
LoopCondInclusive(v, k) == k <= numPoints(v)

\* the condition of the scan loop: i < numPoints
LoopCond(v, k) == k < numPoints(v)

MAX_RETRIES == 3

\* the loop going on after the button was seen, until the limit
RetryLoopCondUntilLimit(activated, count) == count < MAX_RETRIES

\* the condition of the activation loop of the refined variant:
\* !historyModeActivated && retryCount < MAX_RETRIES
RetryLoopCond(activated, count) == ~activated /\ count < MAX_RETRIES

----------------------------------------------------------------------------
(* Date extraction of the refined variant *)

\* /[A-Z][a-z]{2}\s\d{1,2},\s\d{4}/ anchored at index s
MmmDdYyyyAt(t, s) ==
    LET nd == Digits12(t, s + 4, {","})
        q  == s + 4 + nd + 2
    IN  IF /\ At(t, s) \in Upper
           /\ At(t, s + 1) \in Lower
           /\ At(t, s + 2) \in Lower
           /\ IsSpace(At(t, s + 3))
           /\ nd > 0
           /\ IsSpace(At(t, s + 4 + nd + 1))
           /\ FourDigits(t, q)
        THEN [ok |-> TRUE, from |-> s, to |-> q + 3]
        ELSE NoMatch

\* /\d{1,2}\s[A-Z][a-z]{2}\s\d{4}/ anchored at index s
DdMmmYyyyAt(t, s) ==
    LET nd == Digits12(t, s, {" ", "\n"})
        m  == s + nd + 1
    IN  IF /\ nd > 0
           /\ At(t, m) \in Upper
           /\ At(t, m + 1) \in Lower
           /\ At(t, m + 2) \in Lower
           /\ IsSpace(At(t, m + 3))
           /\ FourDigits(t, m + 4)
        THEN [ok |-> TRUE, from |-> s, to |-> m + 7]
        ELSE NoMatch

\* datePatterns[1] and datePatterns[2], matched against a text
mmmDdYyyy(t) ==
    LET S == {s \in 1..Len(t) : MmmDdYyyyAt(t, s).ok}
    IN  IF S = {} THEN NoMatch ELSE MmmDdYyyyAt(t, First(S))

ddMmmYyyy(t) ==
    LET S == {s \in 1..Len(t) : DdMmmYyyyAt(t, s).ok}
    IN  IF S = {} THEN NoMatch ELSE DdMmmYyyyAt(t, First(S))

\* extractDateFromImage (refined variant): the first of datePatterns that
\* matches, else the trimmed text, null when the engine throws
extractDateRefined(ocr) ==
    IF ocr.threw THEN NULL
    ELSE LET text == ocr.text
             m1 == datePattern(text)
             m2 == mmmDdYyyy(text)
             m3 == ddMmmYyyy(text)
         IN  IF m1.ok THEN SubSeq(text, m1.from, m1.to)
             ELSE IF m2.ok THEN SubSeq(text, m2.from, m2.to)
             ELSE IF m3.ok THEN SubSeq(text, m3.from, m3.to)
             ELSE Trim(text)

\* JavaScript truthiness of a string-or-null
Truthy(t) == t # NULL /\ t # <<>>

----------------------------------------------------------------------------
(* Environment of a session *)

\* lengths of the screenshots the browser can hand back
FrameLens == {200, 201, 202}

\* what the date crop can read as during a session
SessionTexts == {<<"3", "/", "2", "0", "/", "2", "0", "1", "6">>,
                 <<"G", "o", "o", "g", "l", "e">>}

OcrOutcomes == {OcrThrows} \cup {OcrText(t) : t \in SessionTexts}

NotProbed == [position |-> 0]

NotWritten == [written |-> FALSE]

\* OUTPUT_DIR before the scan has written an image into it
NoFiles == [name \in {} |-> 0]

----------------------------------------------------------------------------
(* The session: captureHistoricalImagery and its top-level runner *)

Init ==
    /\ variant \in Variants
    /\ pc = "launch"
    /\ browser = "none"
    /\ i = 0
    /\ baselineData = 0
    /\ capturedImages = <<>>
    /\ capturedDates = <<>>
    /\ retryCount = 0
    /\ historyModeActivated = FALSE
    /\ clicks = <<>>
    /\ lastProbe = NotProbed
    /\ pending = FALSE
    /\ outcome = "pending"
    /\ exitCode = 0
    /\ files = {}
    /\ metadata = NotWritten
    /\ report = NotWritten
    /\ raised = "none"
    /\ failedAt = 0
    /\ partial = 0
    /\ disk = NoFiles
    /\ iconClicks = 0
    /\ detected = NULL
    /\ bufA = 0
    /\ bufB = 0
    /\ cmpOut = [done |-> FALSE]
    /\ dateIn = [text |-> <<>>]
    /\ dateOut = [done |-> FALSE]
    /\ pixelX = 0
    /\ yearOut = [done |-> FALSE]
    /\ samples = <<>>
    /\ bundle = [done |-> FALSE]
    /\ stepI = 0
    /\ stepAt = 1
    /\ inflight = {}
    /\ settled = {}

\* number of samples the scan holds: capturedImages.length / capturedDates.size
Held == IF variant = "refined" THEN Len(capturedDates) ELSE Len(capturedImages)

\* an await inside the try block rejects: control moves to the catch block;
\* the block-scoped bindings of the try block (baselineData, capturedImages,
\* capturedDates, the loop's consts) go out of scope
ThrowInTry(label) ==
    /\ pc' = "catch"
    /\ raised' = label
    /\ partial' = Held
    /\ baselineData' = 0
    /\ capturedImages' = <<>>
    /\ capturedDates' = <<>>
    /\ lastProbe' = NotProbed
    /\ UNCHANGED <<variant, browser, i, retryCount, historyModeActivated,
                   pending, outcome, exitCode, files, metadata, report>>

\* puppeteer.launch(...)
Launch ==
    /\ pc = "launch"
    /\ \/ /\ browser' = "open"
          /\ pc' = "newPage"
          /\ UNCHANGED <<raised, outcome>>
       \/ /\ raised' = "launch"
          /\ outcome' = "rejected"
          /\ pc' = "runner"
          /\ UNCHANGED browser
    /\ UNCHANGED <<variant, i, baselineData, capturedImages, capturedDates,
                   retryCount, historyModeActivated, clicks, lastProbe,
                   pending, exitCode, files, metadata, report, failedAt,
                   partial, disk, iconClicks, detected>>

\* browser.newPage() (and page.setUserAgent in the refined variant), both
\* before the try block
NewPage ==
    /\ pc = "newPage"
    /\ \/ /\ pc' = "setup"
          /\ UNCHANGED <<raised, outcome>>
       \/ /\ raised' = "newPage"
          /\ outcome' = "rejected"
          /\ pc' = "runner"
    /\ UNCHANGED <<variant, browser, i, baselineData, capturedImages,
                   capturedDates, retryCount, historyModeActivated, clicks,
                   lastProbe, pending, exitCode, files, metadata, report, failedAt,
                   partial, disk, iconClicks, detected>>

\* Step 1: goto, initial screenshots, zoom, viewport dimensions
Setup ==
    /\ pc = "setup"
    /\ \/ /\ pc' = "activate"
          /\ UNCHANGED <<variant, browser, i, baselineData, capturedImages,
                         capturedDates, retryCount, historyModeActivated,
                         lastProbe, pending, outcome, exitCode, files, metadata, report, raised,
                         partial>>
       \/ ThrowInTry("setup")
    /\ UNCHANGED <<clicks, failedAt, disk, iconClicks, detected>>

\* Step 2 of the simplified and enhanced variants: one click on the history
\* icon, compared before/after; the result is only logged
ActivateOnce ==
    /\ pc = "activate"
    /\ variant \in {"simplified", "enhanced"}
    /\ \/ \E beforeClickData \in FrameLens, afterClickData \in FrameLens :
            /\ historyModeActivated' =
                   compareScreenshots(beforeClickData, afterClickData).hasSignificantChange
            /\ iconClicks' = iconClicks + 1
            /\ pc' = "baseline"
            /\ UNCHANGED <<variant, browser, i, baselineData, capturedImages,
                           capturedDates, retryCount, lastProbe, pending,
                           outcome, exitCode, files, metadata, report, raised, partial>>
       \/ \E clicked \in BOOLEAN :
            /\ iconClicks' = IF clicked THEN iconClicks + 1 ELSE iconClicks
            /\ ThrowInTry("activate")
    /\ UNCHANGED <<clicks, failedAt, disk, detected>>

\* Step 2 of the refined variant: one iteration of the retry loop
ActivateAttempt ==
    /\ pc = "activate"
    /\ variant = "refined"
    /\ RetryLoopCond(historyModeActivated, retryCount)
    /\ \/ \E buttonVisible \in BOOLEAN :
            /\ IF buttonVisible
               THEN historyModeActivated' = TRUE /\ UNCHANGED retryCount
               ELSE retryCount' = retryCount + 1 /\ UNCHANGED historyModeActivated
            /\ iconClicks' = iconClicks + 1
            /\ UNCHANGED <<variant, pc, browser, i, baselineData,
                           capturedImages, capturedDates, lastProbe, pending,
                           outcome, exitCode, files, metadata, report, raised, partial>>
       \/ \E clicked \in BOOLEAN :
            /\ iconClicks' = IF clicked THEN iconClicks + 1 ELSE iconClicks
            /\ ThrowInTry("activate")
    /\ UNCHANGED <<clicks, failedAt, disk, detected>>

\* the refined variant only warning, as the other variants do
AfterActivationContinuing ==
    /\ pc = "activate"
    /\ variant = "refined"
    /\ ~RetryLoopCond(historyModeActivated, retryCount)
    /\ \/ /\ pc' = "scan"
          /\ UNCHANGED <<variant, browser, i, baselineData,
                         capturedImages, capturedDates, retryCount,
                         historyModeActivated, lastProbe, pending,
                         outcome, exitCode, files, metadata, report, raised,
                         partial>>
       \/ ThrowInTry("pause")
    /\ UNCHANGED <<clicks, failedAt, disk, iconClicks, detected>>

\* after the retry loop: throw unless activated, else Step 3 (pause playback)
AfterActivation ==
    /\ pc = "activate"
    /\ variant = "refined"
    /\ ~RetryLoopCond(historyModeActivated, retryCount)
    /\ \/ /\ ~historyModeActivated
          /\ ThrowInTry("activation")
       \/ /\ historyModeActivated
          /\ \/ /\ pc' = "scan"
                /\ UNCHANGED <<variant, browser, i, baselineData,
                               capturedImages, capturedDates, retryCount,
                               historyModeActivated, lastProbe, pending,
                               outcome, exitCode, files, metadata, report, raised, partial>>
             \/ ThrowInTry("pause")
    /\ UNCHANGED <<clicks, failedAt, disk, iconClicks, detected>>

\* baseline screenshot before the scan (simplified and enhanced variants)
TakeBaseline ==
    /\ pc = "baseline"
    /\ \/ \E len \in FrameLens :
            /\ baselineData' = len
            /\ pc' = "scan"
            /\ UNCHANGED <<variant, browser, i, capturedImages, capturedDates,
                           retryCount, historyModeActivated, lastProbe,
                           pending, outcome, exitCode, files, metadata, report, raised, partial>>
       \/ ThrowInTry("baseline")
    /\ UNCHANGED <<clicks, failedAt, disk, iconClicks, detected>>

----------------------------------------------------------------------------
(* The scan loop *)

\* `${LOCATION_NAME.replace(/[^a-z0-9]/gi, '_').toLowerCase()}_${formattedDate}.png`
UniqueImageName(formattedDate) ==
    <<"a", "c", "c", "r", "a", "_", "_", "g", "h", "a", "n", "a", "_">>
        \o formattedDate \o <<".", "p", "n", "g">>

\* `position_${i+1}.png`
PositionImageName(n) ==
    <<"p", "o", "s", "i", "t", "i", "o", "n", "_">> \o NatText(n)
        \o <<".", "p", "n", "g">>

\* `date_display_${i+1}.png`
DateDisplayName(n) ==
    <<"d", "a", "t", "e", "_", "d", "i", "s", "p", "l", "a", "y", "_">>
        \o NatText(n) \o <<".", "p", "n", "g">>

\* `unique_date_${capturedImages.length + 1}.png` (simplified variant)
UniqueDateName(n) ==
    <<"u", "n", "i", "q", "u", "e", "_", "d", "a", "t", "e", "_">>
        \o NatText(n) \o <<".", "p", "n", "g">>

\* what a clipped screenshot of the date display holds; its pixels are not
\* followed, only what the OCR engine makes of them
ClipData == "clip"

\* what a per-position full-page screenshot holds; its bytes are followed
\* only into the copy kept of a unique frame, which the disk holds by length
PageData == "page"

\* a file that exists is left as it is (COPYFILE_EXCL without the error)
WriteFileOnce(d, name, data) ==
    [n \in DOMAIN d \cup {name} |-> IF n \in DOMAIN d THEN d[n] ELSE data]

\* a file written at a path: created, or its content replaced
WriteFile(d, name, data) ==
    [n \in DOMAIN d \cup {name} |-> IF n = name THEN data ELSE d[n]]

\* every probe also keeping a renamed copy of its screenshot
ProbeFilesWithCopy(d, n) ==
    WriteFile(WriteFile(WriteFile(d, PositionImageName(n), PageData),
                        DateDisplayName(n), ClipData),
              UniqueDateName(n), PageData)

\* the full-page screenshot and the date-region crop every probe of the
\* simplified and enhanced variants takes at position n
ProbeFiles(d, n) ==
    WriteFile(WriteFile(d, PositionImageName(n), PageData),
              DateDisplayName(n), ClipData)

\* the files a probe that throws at the given stage has written by then
FilesBeforeThrow(d, n, stage) ==
    CASE stage \in {"click", "screenshot"} -> d
      [] stage = "crop" -> WriteFile(d, PositionImageName(n), PageData)
      [] stage = "copy" -> ProbeFiles(d, n)

\* the environment shows a significantly different frame only within the
\* first ChangeWindow positions
MayChange(significant) == significant => i < ChangeWindow

\* past those positions the browser hands back the very frame that is the
\* baseline
SameFrameAfterWindow(currentData) ==
    i >= ChangeWindow => currentData = baselineData

\* the object pushed on capturedImages for the unique frame found at loop
\* index k (enhanced variant)
CapturedImage(k, ocrResult, comparison) ==
    LET pointX        == PointX("enhanced", k)
        estimatedYear == estimateYearFromPosition(pointX)
        formattedDate == formattedDateOf(ocrResult, estimatedYear)
    IN  [position         |-> k + 1,
         pointX           |-> pointX,
         estimatedYear    |-> estimatedYear,
         detectedDateText |-> ocrResult.raw,
         formattedDate    |-> formattedDate,
         uniquePath       |-> UniqueImageName(formattedDate),
         dateDisplayPath  |-> k + 1,
         percentDiff      |-> comparison.percentDiff]

\* the new entry put in front of the others
PushFront(list, image) == <<image>> \o list

\* capturedImages.push(image)
Push(list, image) == Append(list, image)

\* the baseline replaced by every frame, unique or not
NextBaselinePrevious(baseline, currentData, comparison) == currentData

\* the baseline the next iteration compares against: the frame just taken if
\* it was flagged unique, else the baseline as it was
NextBaseline(baseline, currentData, comparison) ==
    IF comparison.hasSignificantChange THEN currentData ELSE baseline

\* one iteration of the scan loop of the enhanced variant
ProbeEnhanced ==
    /\ pc = "scan"
    /\ variant = "enhanced"
    /\ LoopCond(variant, i)
    /\ LET pointX        == PointX(variant, i)
           estimatedYear == estimateYearFromPosition(pointX)
           click         == [position |-> i + 1, pointX |-> pointX]
       IN  \/ \E currentData \in FrameLens, ocr \in OcrOutcomes :
                LET ocrResult     == extractDateFromImage(ocr)
                    formattedDate == formattedDateOf(ocrResult, estimatedYear)
                    comparison    == compareScreenshots(baselineData, currentData)
                IN  /\ MayChange(comparison.hasSignificantChange)
                    /\ SameFrameAfterWindow(currentData)
                    /\ clicks' = Append(clicks, click)
                    /\ capturedImages' =
                           IF comparison.hasSignificantChange
                           THEN Push(capturedImages,
                                     CapturedImage(i, ocrResult, comparison))
                           ELSE capturedImages
                    /\ baselineData' =
                           NextBaseline(baselineData, currentData, comparison)
                    /\ disk' =
                           IF comparison.hasSignificantChange
                           THEN WriteFile(ProbeFiles(disk, i + 1),
                                          UniqueImageName(formattedDate),
                                          currentData)
                           ELSE ProbeFiles(disk, i + 1)
                    /\ lastProbe' = [position      |-> i + 1,
                                     frame         |-> currentData,
                                     estimatedYear |-> estimatedYear,
                                     ocrResult     |-> ocrResult,
                                     formattedDate |-> formattedDate,
                                     unique        |-> comparison.hasSignificantChange]
                    /\ i' = i + 1
                    /\ UNCHANGED <<variant, pc, browser, capturedDates,
                                   retryCount, historyModeActivated, pending,
                                   outcome, exitCode, files, metadata, report,
                                   raised, failedAt, partial>>
           \/ \E stage \in {"click", "screenshot", "crop", "copy"} :
                /\ stage = "copy" =>
                       \E currentData \in FrameLens :
                           /\ compareScreenshots(baselineData, currentData).hasSignificantChange
                           /\ i < ChangeWindow
                /\ clicks' = IF stage = "click" THEN clicks ELSE Append(clicks, click)
                /\ disk' = FilesBeforeThrow(disk, i + 1, stage)
                /\ failedAt' = i + 1
                /\ ThrowInTry("probe")
    /\ UNCHANGED <<iconClicks, detected>>

\* one iteration of the scan loop of the simplified variant
ProbeSimplified ==
    /\ pc = "scan"
    /\ variant = "simplified"
    /\ LoopCond(variant, i)
    /\ LET pointX == PointX(variant, i)
           click  == [position |-> i + 1, pointX |-> pointX]
       IN  \/ \E currentData \in FrameLens :
                LET comparison == compareScreenshots(baselineData, currentData)
                IN  /\ MayChange(comparison.hasSignificantChange)
                    /\ SameFrameAfterWindow(currentData)
                    /\ clicks' = Append(clicks, click)
                    /\ capturedImages' =
                           IF comparison.hasSignificantChange
                           THEN Push(capturedImages,
                                     [position        |-> i + 1,
                                      pointX          |-> pointX,
                                      uniquePath      |-> Len(capturedImages) + 1,
                                      dateDisplayPath |-> i + 1])
                           ELSE capturedImages
                    /\ baselineData' =
                           NextBaseline(baselineData, currentData, comparison)
                    /\ disk' =
                           IF comparison.hasSignificantChange
                           THEN WriteFile(ProbeFiles(disk, i + 1),
                                          UniqueDateName(Len(capturedImages) + 1),
                                          currentData)
                           ELSE ProbeFiles(disk, i + 1)
                    /\ i' = i + 1
                    /\ UNCHANGED <<variant, pc, browser, capturedDates,
                                   retryCount, historyModeActivated, lastProbe,
                                   pending, outcome, exitCode, files, metadata,
                                   report, raised, failedAt, partial>>
           \/ \E stage \in {"click", "screenshot", "crop", "copy"} :
                /\ stage = "copy" =>
                       \E currentData \in FrameLens :
                           /\ compareScreenshots(baselineData, currentData).hasSignificantChange
                           /\ i < ChangeWindow
                /\ clicks' = IF stage = "click" THEN clicks ELSE Append(clicks, click)
                /\ disk' = FilesBeforeThrow(disk, i + 1, stage)
                /\ failedAt' = i + 1
                /\ ThrowInTry("probe")
    /\ UNCHANGED <<iconClicks, detected>>

\* a Map that would leave an existing key as it is
MapSetKeepFirst(m, key, info) ==
    IF \E k \in 1..Len(m) : m[k].date = key
    THEN m
    ELSE Append(m, [date |-> key, info |-> info])

\* what the log line prints when nothing was read
NoneDetectedText == <<"N", "o", "n", "e", " ", "d", "e", "t", "e", "c", "t", "e", "d">>

\* a date crop in which the recogniser finds white space only
BlankText == <<" ">>

\* what the date crop can read as in the refined variant
RefinedOcrOutcomes == OcrOutcomes \cup {OcrText(BlankText)}

\* Map.prototype.set on the insertion-ordered list of entries
MapSet(m, key, info) ==
    IF \E k \in 1..Len(m) : m[k].date = key
    THEN [k \in 1..Len(m) |->
             IF m[k].date = key THEN [date |-> key, info |-> info] ELSE m[k]]
    ELSE Append(m, [date |-> key, info |-> info])

\* one iteration of the scan loop of the refined variant
ProbeRefined ==
    /\ pc = "scan"
    /\ variant = "refined"
    /\ LoopCond(variant, i)
    /\ LET dotX  == PointX(variant, i)
           click == [position |-> i + 1, pointX |-> dotX]
       IN  \/ \E ocr \in RefinedOcrOutcomes :
                LET extractedDate == extractDateRefined(ocr)
                IN  /\ clicks' = Append(clicks, click)
                    /\ detected' = IF Truthy(extractedDate)
                                   THEN extractedDate ELSE NoneDetectedText
                    /\ capturedDates' =
                           IF Truthy(extractedDate)
                           THEN MapSet(capturedDates, extractedDate,
                                       [position |-> i + 1, x |-> dotX,
                                        imagePath |-> i + 1])
                           ELSE capturedDates
                    /\ i' = i + 1
                    /\ UNCHANGED <<variant, pc, browser, baselineData,
                                   capturedImages, retryCount,
                                   historyModeActivated, lastProbe, pending,
                                   outcome, exitCode, files, metadata, report,
                                   raised, failedAt, partial>>
           \/ \E stage \in {"before", "click", "screenshot", "crop", "highres"} :
                /\ clicks' = IF stage \in {"before", "click"}
                             THEN clicks ELSE Append(clicks, click)
                /\ detected' = NULL
                /\ failedAt' = i + 1
                /\ ThrowInTry("probe")
    /\ UNCHANGED <<disk, iconClicks>>

----------------------------------------------------------------------------
(* Metadata, report, error handling *)

ToText == <<" ", "t", "o", " ">>

NoImagesText == <<"N", "o", " ", "i", "m", "a", "g", "e", "s", " ",
                  "c", "a", "p", "t", "u", "r", "e", "d">>

UnknownText == <<"U", "n", "k", "n", "o", "w", "n">>

UndefinedText == <<"u", "n", "d", "e", "f", "i", "n", "e", "d">>

\* the length test dropped, the elements read with optional chaining
MetadataOfUnguarded(images) ==
    [written         |-> TRUE,
     capturedImages  |-> Len(images),
     actualYearRange |->
         IF Len(images) > 0
         THEN images[1].formattedDate \o ToText \o images[Len(images)].formattedDate
         ELSE UndefinedText \o ToText \o UndefinedText]

\* the range taken from the last unique frame back to the first
MetadataOfReversed(images) ==
    [written         |-> TRUE,
     capturedImages  |-> Len(images),
     actualYearRange |->
         IF Len(images) > 0
         THEN images[Len(images)].formattedDate \o ToText \o images[1].formattedDate
         ELSE NoImagesText]

\* the metadata object of the enhanced variant (fields derived from the scan)
MetadataOf(images) ==
    [written         |-> TRUE,
     capturedImages  |-> Len(images),
     actualYearRange |->
         IF Len(images) > 0
         THEN images[1].formattedDate \o ToText \o images[Len(images)].formattedDate
         ELSE NoImagesText]

\* metadata.json, after the loop of the enhanced variant has run to its end
WriteMetadata ==
    /\ pc = "scan"
    /\ variant = "enhanced"
    /\ ~LoopCond(variant, i)
    /\ \/ /\ metadata' = MetadataOf(capturedImages)
          /\ files' = files \cup {"metadata.json"}
          /\ pc' = "report"
          /\ UNCHANGED <<variant, browser, i, baselineData, capturedImages,
                         capturedDates, retryCount, historyModeActivated,
                         lastProbe, pending, outcome, exitCode, report, raised,
                         partial>>
       \/ ThrowInTry("metadata") /\ UNCHANGED <<metadata, report>>
    /\ UNCHANGED <<clicks, failedAt, disk, iconClicks, detected>>

\* "Actual Date Range Found" of enhanced_report.html
ActualDateRangeFound(images) ==
    IF Len(images) > 0
    THEN images[1].formattedDate \o ToText \o images[Len(images)].formattedDate
    ELSE NoImagesText

\* every second unique frame left out of the gallery
CardsEnhancedSkipping(images) ==
    [k \in 1..((Len(images) + 1) \div 2) |->
        [index         |-> 2 * k - 2,
         src           |-> images[2 * k - 1].uniquePath,
         formattedDate |-> images[2 * k - 1].formattedDate,
         position      |-> images[2 * k - 1].position,
         pointX        |-> images[2 * k - 1].pointX,
         estimatedYear |-> images[2 * k - 1].estimatedYear,
         detectedDate  |-> IF Truthy(images[2 * k - 1].detectedDateText)
                           THEN images[2 * k - 1].detectedDateText ELSE UnknownText]]

\* the image cards of enhanced_report.html
CardsEnhanced(images) ==
    [k \in 1..Len(images) |->
        [index         |-> k - 1,
         src           |-> images[k].uniquePath,
         formattedDate |-> images[k].formattedDate,
         position      |-> images[k].position,
         pointX        |-> images[k].pointX,
         estimatedYear |-> images[k].estimatedYear,
         detectedDate  |-> IF Truthy(images[k].detectedDateText)
                           THEN images[k].detectedDateText ELSE UnknownText]]

\* enhanced_report.html
WriteReportEnhanced ==
    /\ pc = "report"
    /\ variant = "enhanced"
    /\ \/ /\ report' = [written         |-> TRUE,
                        total           |-> Len(capturedImages),
                        actualYearRange |-> ActualDateRangeFound(capturedImages),
                        cards           |-> CardsEnhanced(capturedImages)]
          /\ files' = files \cup {"enhanced_report.html"}
          /\ pc' = "finally"
          /\ UNCHANGED <<variant, browser, i, baselineData, capturedImages,
                         capturedDates, retryCount, historyModeActivated,
                         lastProbe, pending, outcome, exitCode, metadata,
                         raised, partial>>
       \/ ThrowInTry("report") /\ UNCHANGED <<metadata, report>>
    /\ UNCHANGED <<clicks, failedAt, disk, iconClicks, detected>>

\* the image containers of report.html (simplified variant)
CardsSimplified(images) ==
    [k \in 1..Len(images) |->
        [index    |-> k,
         src      |-> images[k].uniquePath,
         position |-> images[k].position,
         pointX   |-> images[k].pointX]]

\* report.html, after the loop of the simplified variant has run to its end
WriteReportSimplified ==
    /\ pc = "scan"
    /\ variant = "simplified"
    /\ ~LoopCond(variant, i)
    /\ \/ /\ report' = [written |-> TRUE,
                        total   |-> Len(capturedImages),
                        cards   |-> CardsSimplified(capturedImages)]
          /\ files' = files \cup {"report.html"}
          /\ pc' = "finally"
          /\ UNCHANGED <<variant, browser, i, baselineData, capturedImages,
                         capturedDates, retryCount, historyModeActivated,
                         lastProbe, pending, outcome, exitCode, metadata,
                         raised, partial>>
       \/ ThrowInTry("report") /\ UNCHANGED <<metadata, report>>
    /\ UNCHANGED <<clicks, failedAt, disk, iconClicks, detected>>

\* captured_dates.json and the final screenshot (refined variant)
WriteSummary ==
    /\ pc = "scan"
    /\ variant = "refined"
    /\ ~LoopCond(variant, i)
    /\ \/ /\ report' = [written |-> TRUE,
                        total   |-> Len(capturedDates),
                        cards   |-> [k \in 1..Len(capturedDates) |->
                                        [date      |-> capturedDates[k].date,
                                         position  |-> capturedDates[k].info.position,
                                         imagePath |-> capturedDates[k].info.imagePath]]]
          /\ files' = files \cup {"captured_dates.json"}
          /\ pc' = "finally"
          /\ UNCHANGED <<variant, browser, i, baselineData, capturedImages,
                         capturedDates, retryCount, historyModeActivated,
                         lastProbe, pending, outcome, exitCode, metadata,
                         raised, partial>>
       \/ ThrowInTry("summary") /\ UNCHANGED <<metadata, report>>
    /\ UNCHANGED <<clicks, failedAt, disk, iconClicks, detected>>

\* the catch block: log, then the error-state screenshot; only the refined
\* variant guards that screenshot with a try/catch of its own; no variant
\* rethrows the error it caught
CatchError ==
    /\ pc = "catch"
    /\ \/ /\ files' = files \cup {"error_state.png"}
          /\ pending' = FALSE
       \/ /\ UNCHANGED files
          /\ pending' = (variant # "refined")
    /\ pc' = "finally"
    /\ UNCHANGED <<variant, browser, i, baselineData, capturedImages,
                   capturedDates, retryCount, historyModeActivated, clicks,
                   lastProbe, outcome, exitCode, metadata, report, raised,
                   failedAt, partial, disk, iconClicks, detected>>

\* the finally block: browser.close(); then the promise settles
Finally ==
    /\ pc = "finally"
    /\ browser' = "closed"
    /\ outcome' = IF pending THEN "rejected" ELSE "resolved"
    /\ pc' = "runner"
    /\ UNCHANGED <<variant, i, baselineData, capturedImages, capturedDates,
                   retryCount, historyModeActivated, clicks, lastProbe,
                   pending, exitCode, files, metadata, report, raised,
                   failedAt, partial, disk, iconClicks, detected>>

\* what the promise of captureHistoricalImagery resolves with: none of the
\* three variants has a return statement
ResolvedValue == IF outcome = "resolved" THEN "undefined" ELSE "none"

\* captureHistoricalImagery().catch(...): console.error, and process.exit(1)
\* in the refined variant
Runner ==
    /\ pc = "runner"
    /\ exitCode' = IF outcome = "rejected" /\ variant = "refined" THEN 1 ELSE 0
    /\ pc' = "exited"
    /\ UNCHANGED <<variant, browser, i, baselineData, capturedImages,
                   capturedDates, retryCount, historyModeActivated, clicks,
                   lastProbe, pending, outcome, files, metadata, report,
                   raised, failedAt, partial, disk, iconClicks, detected>>

Next ==
    \/ Launch
    \/ NewPage
    \/ Setup
    \/ ActivateOnce
    \/ ActivateAttempt
    \/ AfterActivation
    \/ TakeBaseline
    \/ ProbeEnhanced
    \/ ProbeSimplified
    \/ ProbeRefined
    \/ WriteMetadata
    \/ WriteReportEnhanced
    \/ WriteReportSimplified
    \/ WriteSummary
    \/ CatchError
    \/ Finally
    \/ Runner

Spec ==
    Init /\ [][Next /\ UNCHANGED <<cmpVars, dateVars, yearVars, reportVars,
                                    stepVars>>]_vars

----------------------------------------------------------------------------
(* Harness of the change detector: any two buffer lengths up to MaxBufLen *)

InitCompare ==
    /\ Init
    /\ variant = "enhanced"

PickBuffers ==
    /\ ~cmpOut.done
    /\ bufA = 0 /\ bufB = 0
    /\ \E a \in 0..MaxBufLen, b \in 0..MaxBufLen :
          /\ bufA' = a
          /\ bufB' = b
          /\ cmpOut' =
                [done |-> TRUE,
                 ab   |-> compareScreenshots(a, b).hasSignificantChange,
                 ba   |-> compareScreenshots(b, a).hasSignificantChange,
                 ab1  |-> hasSignificantChanges(a, b),
                 ba1  |-> hasSignificantChanges(b, a)]
    /\ UNCHANGED <<sessionVars, dateVars, yearVars, reportVars, stepVars>>

NextCompare == PickBuffers

SpecCompare == InitCompare /\ [][NextCompare]_vars

----------------------------------------------------------------------------
(* Harness of the date helpers: every calendar date 1/1 .. 12/31 of the     *)
(* harness years, written as M/D/YYYY and as Mon D, YYYY, is read by         *)
(* extractDateFromImage and labelled as the scan loop labels it              *)

HarnessYears == {2016, 2024}

\* the month abbreviations of monthPattern / monthNames, January first
MonthList == <<<<"j", "a", "n">>, <<"f", "e", "b">>, <<"m", "a", "r">>,
               <<"a", "p", "r">>, <<"m", "a", "y">>, <<"j", "u", "n">>,
               <<"j", "u", "l">>, <<"a", "u", "g">>, <<"s", "e", "p">>,
               <<"o", "c", "t">>, <<"n", "o", "v">>, <<"d", "e", "c">>>>

ToUpper(c) == CHOOSE u \in Upper : ToLower(u) = c

\* the spellings of a lower-case abbreviation in every letter case
CaseForms(abbr) ==
    {[k \in 1..Len(abbr) |-> IF up[k] THEN ToUpper(abbr[k]) ELSE abbr[k]] :
        up \in [1..Len(abbr) -> BOOLEAN]}

\* a number below 100 written with one or two digits
NumberForms(n) == {NatText(n), PadStart2(NatText(n))}

SlashTexts(y, m, d) ==
    {mt \o <<"/">> \o dt \o <<"/">> \o NatText(y) :
        mt \in NumberForms(m), dt \in NumberForms(d)}

MonthNameTexts(y, m, d) ==
    {mt \o <<" ">> \o dt \o <<",", " ">> \o NatText(y) :
        mt \in CaseForms(MonthList[m]), dt \in NumberForms(d)}

InitDate ==
    /\ Init
    /\ variant = "enhanced"

\* the date crop reads as one date text; the scan loop extracts and labels it
ReadDate ==
    /\ ~dateOut.done
    /\ \E y \in HarnessYears, m \in 1..12, d \in 1..31 :
        \E text \in SlashTexts(y, m, d) \cup MonthNameTexts(y, m, d) :
          LET ocrResult == extractDateFromImage(OcrText(text))
          IN  /\ dateIn' = [text |-> text, year |-> y, month |-> m, day |-> d]
              /\ dateOut' =
                    [done      |-> TRUE,
                     ocrResult |-> ocrResult,
                     label     |-> formattedDateOf(ocrResult, y),
                     direct    |-> formatDateForFilename(text)]
    /\ UNCHANGED <<sessionVars, cmpVars, yearVars, reportVars, stepVars>>

NextDate == ReadDate

SpecDate == InitDate /\ [][NextDate]_vars

----------------------------------------------------------------------------
(* Harness of the extraction patterns: month-name dates with any run of     *)
(* blanks and commas between their parts, read by extractDateFromImage and   *)
(* labelled as the scan loop labels them                                     *)

\* the runs of [\s,] the harness writes between month, day and year
Separators ==
    UNION {[1..n -> {" ", ","}] : n \in 1..MaxSepLen}

\* the abbreviation of month m as the date display prints it: "Jan", "Feb"
Capitalised(m) ==
    <<ToUpper(MonthList[m][1]), MonthList[m][2], MonthList[m][3]>>

InitExtract ==
    /\ Init
    /\ variant = "enhanced"

ReadSeparated ==
    /\ ~dateOut.done
    /\ \E m \in 1..12, d \in {5, 19}, sep1 \in Separators, sep2 \in Separators :
          \E text \in {Capitalised(m) \o sep1 \o NatText(d) \o sep2 \o NatText(2024)} :
            \E ocrResult \in {extractDateFromImage(OcrText(text))} :
              /\ dateIn' = [text |-> text, year |-> 2024, month |-> m, day |-> d,
                            sep1 |-> sep1, sep2 |-> sep2]
              /\ dateOut' = [done      |-> TRUE,
                             ocrResult |-> ocrResult,
                             label     |-> formattedDateOf(ocrResult, 2024)]
    /\ UNCHANGED <<sessionVars, cmpVars, yearVars, reportVars, stepVars>>

\* the dates and words an OCR text of the harness is made of: each has the
\* kind of pattern written for it, the date it carries and its spelling
Pieces ==
    {[kind |-> "older",
      date |-> <<"3", "/", "2", "0", "/", "2", "0", "1", "6">>,
      text |-> <<"o", "l", "d", "e", "r", "~", "3", "/", "2", "0", "/", "2", "0", "1", "6">>],
     [kind |-> "older",
      date |-> <<"7", "/", "4", "/", "2", "0", "1", "8">>,
      text |-> <<"o", "l", "d", "e", "r", " ", "7", "/", "4", "/", "2", "0", "1", "8">>],
     [kind |-> "slash",
      date |-> <<"1", "2", "/", "5", "/", "2", "0", "1", "9">>,
      text |-> <<"1", "2", "/", "5", "/", "2", "0", "1", "9">>],
     [kind |-> "slash",
      date |-> <<"1", "/", "2", "/", "2", "0", "2", "0">>,
      text |-> <<"1", "/", "2", "/", "2", "0", "2", "0">>],
     [kind |-> "month",
      date |-> <<"J", "a", "n", " ", "1", "9", ",", " ", "2", "0", "2", "4">>,
      text |-> <<"J", "a", "n", " ", "1", "9", ",", " ", "2", "0", "2", "4">>],
     [kind |-> "word",
      date |-> NULL,
      text |-> <<"G", "o", "o", "g", "l", "e">>]}

\* the pieces written one after the other, a blank between them
RECURSIVE Joined(_)
Joined(ps) ==
    IF Len(ps) = 1 THEN ps[1].text
    ELSE ps[1].text \o <<" ">> \o Joined(Tail(ps))

ReadComposite ==
    /\ ~dateOut.done
    /\ \E n \in 1..MaxPieces :
          \E ps \in [1..n -> Pieces] :
            \E ocrResult \in {extractDateFromImage(OcrText(Joined(ps)))} :
              /\ dateIn' = [text   |-> Joined(ps),
                            pieces |-> [k \in 1..n |-> [kind |-> ps[k].kind,
                                                        date |-> ps[k].date]]]
              /\ dateOut' = [done      |-> TRUE,
                             ocrResult |-> ocrResult,
                             label     |-> formattedDateOf(ocrResult, 2024)]
    /\ UNCHANGED <<sessionVars, cmpVars, yearVars, reportVars, stepVars>>

NextExtract == ReadSeparated \/ ReadComposite

SpecExtract == InitExtract /\ [][NextExtract]_vars

----------------------------------------------------------------------------
(* Harness of estimateYearFromPosition: any integer position from           *)
(* PixelMargin left of the calibration range to PixelMargin right of it      *)

MinPixelX == timelineStartX - PixelMargin

MaxPixelX == timelineEndX + PixelMargin

InitYear ==
    /\ Init
    /\ variant = "enhanced"

EstimateYear ==
    /\ ~yearOut.done
    /\ \E x \in MinPixelX..MaxPixelX :
          /\ pixelX' = x
          /\ yearOut' = [done |-> TRUE, year |-> estimateYearFromPosition(x)]
    /\ UNCHANGED <<sessionVars, cmpVars, dateVars, reportVars, stepVars>>

NextYear == EstimateYear

SpecYear == InitYear /\ [][NextYear]_vars

----------------------------------------------------------------------------
(* Harness of the metadata and report builders: the unique frames of an     *)
(* enhanced scan, found at increasing positions among UniquePositions, each  *)
(* with any outcome of the OCR engine; the bundle is what metadata.json and  *)
(* enhanced_report.html would hold if the scan ended there                   *)

\* the positions at which the harness lets the imagery change
UniquePositions == {p \in 1..numPoints("enhanced") : p % 3 = 1}

InitReport ==
    /\ Init
    /\ variant = "enhanced"

AddSample ==
    /\ Len(samples) < MaxSamples
    /\ \E p \in UniquePositions, ocr \in OcrOutcomes :
          /\ \A k \in 1..Len(samples) : samples[k].position < p
          /\ LET before == IF Len(samples) % 2 = 0 THEN 200 ELSE 202
                 after  == IF Len(samples) % 2 = 0 THEN 202 ELSE 200
                 image  == CapturedImage(p - 1, extractDateFromImage(ocr),
                                         compareScreenshots(before, after))
             IN  \E held \in {Append(samples, image)} :
                 /\ samples' = held
                 /\ bundle' =
                       [done     |-> TRUE,
                        metadata |-> MetadataOf(held),
                        report   |-> [written         |-> TRUE,
                                      total           |-> Len(held),
                                      actualYearRange |-> ActualDateRangeFound(held),
                                      cards           |-> CardsEnhanced(held)]]
    /\ UNCHANGED <<sessionVars, cmpVars, dateVars, yearVars, stepVars>>

NextReport == AddSample

SpecReport == InitReport /\ [][NextReport]_vars

----------------------------------------------------------------------------
(* Harness of the loop body: the statements of one scan iteration, each     *)
(* asynchronous call issued to the page and settled by it later, for the     *)
(* first MaxStepPositions iterations of each variant                         *)

\* the calls of one iteration, in statement order
Steps(v) ==
    CASE v = "enhanced"   -> <<"click", "sleep", "screenshot", "readFile",
                               "crop", "ocr", "compare">>
      [] v = "simplified" -> <<"click", "sleep", "screenshot", "readFile",
                               "crop", "compare">>
      [] v = "refined"    -> <<"before", "click", "sleep", "screenshot",
                               "crop", "ocr", "highres">>

\* compareScreenshots is an ordinary call: it has returned when the
\* statement ends
SyncSteps == {"compare"}

\* the next statement run while calls are still pending
AwaitedNever(pendingCalls) == TRUE

\* await: the loop goes on to its next statement only when the call it
\* made has settled
Awaited(pendingCalls) == pendingCalls = {}

InitSteps == Init

\* the loop runs its next statement (the high-resolution screenshot of the
\* refined variant only if a date was extracted)
IssueStep ==
    /\ stepI < numPoints(variant) /\ stepI < MaxStepPositions
    /\ Awaited(inflight)
    /\ LET call == [position |-> stepI + 1, op |-> Steps(variant)[stepAt]]
       IN  \E taken \in IF call.op = "highres" THEN BOOLEAN ELSE {TRUE} :
             /\ inflight' = IF taken /\ call.op \notin SyncSteps
                            THEN inflight \cup {call} ELSE inflight
             /\ settled' = IF taken /\ call.op \in SyncSteps
                           THEN settled \cup {call} ELSE settled
    /\ IF stepAt = Len(Steps(variant))
       THEN stepAt' = 1 /\ stepI' = stepI + 1
       ELSE stepAt' = stepAt + 1 /\ stepI' = stepI
    /\ UNCHANGED <<sessionVars, cmpVars, dateVars, yearVars, reportVars>>

\* the page settles a pending call
SettleStep ==
    /\ \E call \in inflight :
          /\ inflight' = inflight \ {call}
          /\ settled' = settled \cup {call}
    /\ UNCHANGED <<stepI, stepAt>>
    /\ UNCHANGED <<sessionVars, cmpVars, dateVars, yearVars, reportVars>>

NextSteps == IssueStep \/ SettleStep

SpecSteps == InitSteps /\ [][NextSteps]_vars

----------------------------------------------------------------------------
(* Properties *)

Finished == pc = "exited"

\* C1: the change detector applied to two buffers of the same length reports
\* no significant change, at the 0.5 percent threshold of compareScreenshots
\* and at the 1 percent threshold of hasSignificantChanges, the empty buffer
\* included.
C1_IdenticalNeverSignificant ==
    (cmpOut.done /\ bufA = bufB) => (~cmpOut.ab /\ ~cmpOut.ab1)

C1_Witness == cmpOut.done /\ bufA = bufB /\ bufA = 200 /\ ~cmpOut.ab

\* C2 (as stated): the change detector gives the same answer for (a, b) and
\* for (b, a), at both thresholds.
C2_Symmetric ==
    cmpOut.done => (cmpOut.ab = cmpOut.ba /\ cmpOut.ab1 = cmpOut.ba1)

\* C2 (amended): the difference is relative to the first buffer, so only one
\* direction carries over: a change flagged relative to the longer buffer is
\* flagged relative to the shorter one too, and buffers of equal length get
\* the same answer in both directions.
C2_SignificantFromLongerIsSignificantFromShorter ==
    (cmpOut.done /\ bufA >= bufB) =>
        /\ cmpOut.ab => cmpOut.ba
        /\ cmpOut.ab1 => cmpOut.ba1
        /\ bufA = bufB => (cmpOut.ab = cmpOut.ba /\ cmpOut.ab1 = cmpOut.ba1)

C2_Witness ==
    cmpOut.done /\ bufA = 200 /\ bufB = 199 /\ ~cmpOut.ab /\ cmpOut.ba

\* C3: when a probe step throws at position failedAt, every later position
\* is still clicked before the session ends.
C3_ScanContinuesAfterProbeFailure ==
    (Finished /\ failedAt > 0) =>
        \A p \in (failedAt + 1)..numPoints(variant) :
            \E k \in 1..Len(clicks) : clicks[k].position = p

\* C4: no session ends with a launched browser left open.
C4_BrowserClosedOnEveryExit ==
    (Finished /\ browser # "none") => browser = "closed"

\* C5: a scan that aborts while holding unique samples still produces the
\* metadata record and the report.
C5_PartialSamplesReported ==
    (Finished /\ failedAt > 0 /\ partial > 0) =>
        (metadata.written /\ report.written)

\* C6: an error raised inside the session reaches the caller: the promise
\* rejects, or the process exits non-zero.
C6_ErrorsPropagate ==
    (Finished /\ raised # "none") => (outcome = "rejected" \/ exitCode # 0)

\* C7 (as stated): no timeline position is clicked in a run whose activation
\* was not confirmed.
C7_NoScanWithoutActivation ==
    clicks # <<>> => historyModeActivated

\* C7 (amended): in the refined variant an unconfirmed activation, after
\* MAX_RETRIES attempts, raises the activation error before any timeline
\* position is clicked; the simplified and enhanced variants only log a
\* warning and scan anyway.
C7_RefinedAbortsBeforeScan ==
    variant = "refined" =>
        /\ clicks # <<>> => historyModeActivated
        /\ pc = "scan" => historyModeActivated
        /\ raised = "activation" =>
               (~historyModeActivated /\ retryCount = MAX_RETRIES /\ clicks = <<>>)

C7_Witness ==
    /\ variant = "refined"
    /\ Finished
    /\ raised = "activation"
    /\ retryCount = MAX_RETRIES
    /\ clicks = <<>>

\* C8: the scan clicks positions 1, 2, ... in order at strictly increasing
\* pixelX, never more than numPoints of them, and exactly numPoints once the
\* loop has run to its end (20 over [1200,1600), 30 over [1100,1600) and
\* 30 over [400,1600)).
C8_ScanPositions ==
    /\ Len(clicks) <= numPoints(variant)
    /\ \A k \in 1..Len(clicks) :
          /\ clicks[k].position = k
          /\ clicks[k].pointX = PointX(variant, k - 1)
          /\ k > 1 => clicks[k - 1].pointX < clicks[k].pointX
    /\ (pc \in {"report", "finally"} /\ raised = "none") =>
           Len(clicks) = numPoints(variant)

C8_Witness ==
    /\ variant = "enhanced"
    /\ Finished
    /\ raised = "none"
    /\ Len(clicks) = 30
    /\ clicks[1].pointX = 1100
    /\ clicks[30].pointX = 1583

SlashDateText == <<"3", "/", "2", "0", "/", "2", "0", "1", "6">>

CanonicalOfSlashDate == <<"2", "0", "1", "6", "-", "0", "3", "-", "2", "0">>

\* C9 (as stated): whenever OCR returned some text for a sample, the label
\* is OCR-derived and is not the est_ label.
C9_OcrTextWins ==
    (lastProbe.position > 0 /\ Truthy(lastProbe.ocrResult.raw)) =>
        lastProbe.formattedDate # EstLabel(lastProbe.estimatedYear)

\* C9 (amended): whenever OCR returned text in which a date pattern matched,
\* the label is the canonical form of that date and is not the est_ label;
\* text without a date leaves the est_ label in place.
C9_OcrDateWins ==
    /\ (lastProbe.position > 0 /\ lastProbe.ocrResult.date # NULL) =>
          /\ lastProbe.formattedDate = formatDateForFilename(lastProbe.ocrResult.date)
          /\ lastProbe.formattedDate # EstLabel(lastProbe.estimatedYear)
    /\ (lastProbe.position > 0 /\ lastProbe.ocrResult.raw = SlashDateText) =>
          lastProbe.formattedDate = CanonicalOfSlashDate
    /\ \A k \in 1..Len(capturedImages) :
          (variant = "enhanced" /\ capturedImages[k].detectedDateText = SlashDateText) =>
              capturedImages[k].formattedDate = CanonicalOfSlashDate

C9_Witness ==
    /\ lastProbe.position > 0
    /\ lastProbe.ocrResult.date = SlashDateText
    /\ lastProbe.unique
    /\ capturedImages[Len(capturedImages)].formattedDate = CanonicalOfSlashDate

\* C10: a throw of the OCR engine stays inside extractDateFromImage: the
\* probe completes, its label is est_{estimatedYear} with no detected text,
\* no error is raised and the loop moves on to the next position.
C10_OcrErrorIsLocal ==
    [][(lastProbe' # lastProbe /\ lastProbe'.position > 0
            /\ lastProbe'.ocrResult.error) =>
          /\ lastProbe'.formattedDate = EstLabel(lastProbe'.estimatedYear)
          /\ lastProbe'.ocrResult.raw = NULL
          /\ pc = "scan" /\ pc' = "scan"
          /\ i' = i + 1
          /\ raised' = raised
          /\ failedAt' = failedAt]_vars

C10_Witness ==
    \E k \in 1..Len(capturedImages) :
        /\ variant = "enhanced"
        /\ capturedImages[k].detectedDateText = NULL
        /\ capturedImages[k].formattedDate = EstLabel(capturedImages[k].estimatedYear)
        /\ Len(clicks) > capturedImages[k].position
        /\ raised = "none"

GoogleText == <<"G", "o", "o", "g", "l", "e">>

\* one of the three patterns of the enhanced extractDateFromImage matches in t
HasDate(t) ==
    t # NULL /\ (olderPattern(t).ok \/ datePattern(t).ok \/ monthPattern(t).ok)

\* one of the datePatterns of the refined extractDateFromImage matches in t
HasRefinedDate(t) ==
    t # NULL /\ (datePattern(t).ok \/ mmmDdYyyy(t).ok \/ ddMmmYyyy(t).ok)

\* C11 (as stated): OCR text in which no date pattern matches is never
\* treated as a date: the label is est_{estimatedYear}, and no such text is
\* recorded as the date of a capture.
C11_UnmatchedTextNeverADate ==
    /\ \A k \in 1..Len(capturedImages) :
          (variant = "enhanced" /\ ~HasDate(capturedImages[k].detectedDateText)) =>
              capturedImages[k].formattedDate = EstLabel(capturedImages[k].estimatedYear)
    /\ \A k \in 1..Len(capturedDates) : HasRefinedDate(capturedDates[k].date)

\* C11 (amended): in the enhanced variant OCR text in which no date pattern
\* matches yields no date: the label is est_{estimatedYear} and the trimmed
\* text survives only as detectedDateText.  The refined variant returns the
\* trimmed text itself when no pattern matches and records it as a date key
\* whenever it is not empty.
C11_UnmatchedTextGetsEstimate ==
    /\ (lastProbe.position > 0 /\ ~lastProbe.ocrResult.error
            /\ ~HasDate(lastProbe.ocrResult.raw)) =>
          /\ lastProbe.ocrResult.date = NULL
          /\ lastProbe.ocrResult.raw # NULL
          /\ lastProbe.formattedDate = EstLabel(lastProbe.estimatedYear)
    /\ \A k \in 1..Len(capturedImages) :
          (variant = "enhanced" /\ ~HasDate(capturedImages[k].detectedDateText)) =>
              capturedImages[k].formattedDate = EstLabel(capturedImages[k].estimatedYear)
    /\ \A k \in 1..Len(capturedDates) :
          /\ Truthy(capturedDates[k].date)
          /\ capturedDates[k].date = Trim(capturedDates[k].date)

C11_Witness ==
    /\ variant = "enhanced"
    /\ lastProbe.position > 0
    /\ lastProbe.unique
    /\ lastProbe.ocrResult.raw = GoogleText
    /\ capturedImages[Len(capturedImages)].detectedDateText = GoogleText
    /\ capturedImages[Len(capturedImages)].formattedDate = <<"e", "s", "t", "_", "2", "0", "1", "5">>

\* n below 100 as two decimal digits
TwoDigits(n) == <<Digits[(n \div 10) + 1], Digits[(n % 10) + 1]>>

JanDateText == <<"J", "a", "n", " ", "1", "9", ",", " ", "2", "0", "2", "4">>

CanonicalOfJanDate == <<"2", "0", "2", "4", "-", "0", "1", "-", "1", "9">>

\* C12: a date written M/D/YYYY or Mon D, YYYY (month 1..12, day 1..31 with
\* one or two digits, the abbreviation in any letter case) is recognised as
\* a date and normalised to YYYY-MM-DD with month and day zero-padded, both
\* by formatDateForFilename on the text and as the label of the scan loop;
\* "3/20/2016" gives "2016-03-20" and "Jan 19, 2024" gives "2024-01-19".
C12_DatesNormalised ==
    dateOut.done =>
        LET canonical == NatText(dateIn.year) \o <<"-">> \o TwoDigits(dateIn.month)
                             \o <<"-">> \o TwoDigits(dateIn.day)
        IN  /\ dateOut.ocrResult.date = dateIn.text
            /\ dateOut.direct = canonical
            /\ dateOut.label = canonical
            /\ Len(dateOut.label) = 10
            /\ dateIn.text = SlashDateText => dateOut.label = CanonicalOfSlashDate
            /\ dateIn.text = JanDateText => dateOut.label = CanonicalOfJanDate

C12_Witness ==
    /\ dateOut.done
    /\ dateIn.text = JanDateText
    /\ dateOut.ocrResult.date = JanDateText
    /\ dateOut.label = CanonicalOfJanDate

\* C13: with the calibration (400, 1600, 2002, 2024) the estimate at an
\* integer x in [400, 1600] is 2002 + round((x - 400) * 22 / 1200), halves
\* rounding up: the offset is the one integer k with
\* k - 1/2 <= (x - 400) * 22 / 1200 < k + 1/2.  The estimate is 2002 at 400,
\* 2024 at 1600, and lies in 2002..2024 throughout.
C13_EstimateInCalibrationRange ==
    (yearOut.done /\ pixelX >= 400 /\ pixelX <= 1600) =>
        LET k == yearOut.year - 2002
        IN  /\ 2400 * k - 1200 <= 44 * (pixelX - 400)
            /\ 44 * (pixelX - 400) < 2400 * k + 1200
            /\ yearOut.year \in 2002..2024
            /\ pixelX = 400 => yearOut.year = 2002
            /\ pixelX = 1600 => yearOut.year = 2024

\* x = 700 is 5.5 years past 2002: the half rounds up
C13_Witness == yearOut.done /\ pixelX = 700 /\ yearOut.year = 2008

\* C14: the estimate never decreases as the position grows, inside and
\* outside the calibration range; in particular the estimate of a scan
\* position is at most the estimate of every later position of that scan.
C14_EstimateMonotonic ==
    yearOut.done =>
        /\ \A x2 \in pixelX..MaxPixelX :
              yearOut.year <= estimateYearFromPosition(x2)
        /\ \A v \in Variants : \A k \in 0..(numPoints(v) - 1) :
              PointX(v, k) = pixelX =>
                  \A j \in k..(numPoints(v) - 1) :
                      yearOut.year <= estimateYearFromPosition(PointX(v, j))

\* x = 300 lies left of the calibration range: 2002 + round(-1.83) = 2000
C14_Witness == yearOut.done /\ pixelX = 300 /\ yearOut.year = 2000

\* C15: an enhanced session whose scan ran to its end without flagging any
\* frame has written metadata with capturedImages = 0 and actualYearRange =
\* "No images captured", and then a report with an empty gallery; a metadata
\* record counting 0 images never carries another range.
C15_EmptySessionReported ==
    /\ (metadata.written /\ metadata.capturedImages = 0) =>
           metadata.actualYearRange = NoImagesText
    /\ (variant = "enhanced" /\ raised = "none" /\ capturedImages = <<>>
            /\ pc \in {"report", "finally", "runner", "exited"}) =>
          /\ metadata.written
          /\ metadata.capturedImages = 0
          /\ "metadata.json" \in files
    /\ (variant = "enhanced" /\ raised = "none" /\ capturedImages = <<>>
            /\ pc \in {"finally", "runner", "exited"}) =>
          /\ report.written
          /\ report.total = 0
          /\ report.cards = <<>>
          /\ report.actualYearRange = NoImagesText
          /\ "enhanced_report.html" \in files
          /\ outcome # "rejected"

C15_Witness ==
    /\ variant = "enhanced"
    /\ Finished
    /\ raised = "none"
    /\ outcome = "resolved"
    /\ Len(clicks) = 30
    /\ metadata.written
    /\ metadata.capturedImages = 0
    /\ metadata.actualYearRange = NoImagesText
    /\ report.written
    /\ report.cards = <<>>

\* the label the scan gives the unique frame s: the canonical form of the one
\* date the crop can read as, else est_ and the year estimated at s.position
ScanLabel(s) ==
    IF s.detectedDateText = SlashDateText
    THEN CanonicalOfSlashDate
    ELSE <<"e", "s", "t", "_">>
             \o NatText(estimateYearFromPosition(PointX("enhanced", s.position - 1)))

ExampleRange == <<"e", "s", "t", "_", "2", "0", "1", "5", " ", "t", "o", " ",
                  "e", "s", "t", "_", "2", "0", "2", "3">>

\* C16: with at least one unique frame, the range of metadata.json and of
\* the report is "<label of the first unique frame found> to <label of the
\* last one found>", first and last in scan order (smallest and largest
\* timeline position), whatever the labels say chronologically; unique
\* frames at estimated years 2015, 2016, 2019, 2023 without OCR dates give
\* "est_2015 to est_2023" and four cards.
C16_RangeInScanOrder ==
    bundle.done =>
        LET n     == Len(samples)
            range == ScanLabel(samples[1]) \o <<" ", "t", "o", " ">>
                         \o ScanLabel(samples[n])
        IN  /\ n > 0
            /\ \A k \in 1..n :
                  /\ samples[1].position <= samples[k].position
                  /\ samples[k].position <= samples[n].position
            /\ bundle.metadata.actualYearRange = range
            /\ bundle.report.actualYearRange = range
            /\ bundle.metadata.capturedImages = n
            /\ ([k \in 1..n |-> samples[k].estimatedYear] = <<2015, 2016, 2019, 2023>>
                    /\ \A k \in 1..n : samples[k].detectedDateText # SlashDateText) =>
                  /\ bundle.metadata.actualYearRange = ExampleRange
                  /\ Len(bundle.report.cards) = 4

C16_Witness ==
    /\ bundle.done
    /\ [k \in 1..Len(samples) |-> samples[k].position] = <<1, 4, 13, 28>>
    /\ [k \in 1..Len(samples) |-> samples[k].estimatedYear] = <<2015, 2016, 2019, 2023>>
    /\ \A k \in 1..Len(samples) : samples[k].detectedDateText = NULL
    /\ bundle.metadata.actualYearRange = ExampleRange

\* C17: the gallery of a written report holds one card per probe flagged
\* unique and no other: every probe that flags its frame appends exactly one
\* entry carrying its position, every other probe appends none, and the
\* report then shows the entries in that order with display indices 0, 1,
\* 2, ... (card-0, card-1, ...), as many cards as metadata.capturedImages
\* counts, at strictly increasing timeline positions.
C17_GalleryIsUniqueProbes ==
    /\ []((report.written /\ variant \in {"simplified", "enhanced"}) =>
            /\ Len(report.cards) = Len(capturedImages)
            /\ report.total = Len(report.cards)
            /\ \A k \in 1..Len(report.cards) :
                  /\ report.cards[k].position = capturedImages[k].position
                  /\ report.cards[k].position \in 1..numPoints(variant)
                  /\ k > 1 => report.cards[k - 1].position < report.cards[k].position
                  /\ report.cards[k].index = IF variant = "enhanced" THEN k - 1 ELSE k
            /\ variant = "enhanced" =>
                  /\ metadata.written
                  /\ Len(report.cards) = metadata.capturedImages)
    /\ [][(variant = "enhanced" /\ i' = i + 1) =>
             IF lastProbe'.unique
             THEN /\ Len(capturedImages') = Len(capturedImages) + 1
                  /\ SubSeq(capturedImages', 1, Len(capturedImages)) = capturedImages
                  /\ capturedImages'[Len(capturedImages')].position = i + 1
                  /\ lastProbe'.position = i + 1
             ELSE capturedImages' = capturedImages]_vars

C17_Witness ==
    /\ variant = "enhanced"
    /\ Finished
    /\ report.written
    /\ metadata.capturedImages = 3
    /\ [k \in 1..Len(report.cards) |-> report.cards[k].index] = <<0, 1, 2>>
    /\ [k \in 1..Len(report.cards) |-> report.cards[k].position] = <<1, 2, 3>>
    /\ Len(clicks) = 30

\* C18: a session that completes without error resolves to the path of the
\* archive or of the output directory.
C18_ResolvesToOutputPath ==
    (Finished /\ raised = "none" /\ outcome = "resolved") =>
        ResolvedValue \in {"zipPath", "outputDir"}

\* an error was raised inside the try block and the catch block has run
ErrorCaught ==
    /\ raised \notin {"none", "launch", "newPage"}
    /\ pc \in {"finally", "runner", "exited"}

\* C19: once the catch block has handled an error (and its screenshot call
\* did not itself fail), the output directory holds both the error-state
\* screenshot and the dump of the page's HTML, written while the browser
\* was still open.
C19_ErrorStateDumped ==
    (ErrorCaught /\ "error_state.png" \in files) =>
        "error_page_source.html" \in files

\* a probe of the scan loop completes in this step
ProbeCompletes == pc = "scan" /\ i' = i + 1

\* C20: the baseline is the frame of the most recent probe flagged unique
\* (the pre-scan screenshot until one is flagged): a probe is flagged exactly
\* when compareScreenshots reports a significant change from the baseline
\* held at that moment to the probe's frame; a flagged probe makes its frame
\* the baseline and records one unique image; any other probe leaves the
\* baseline and the images alone; and between probes the baseline never
\* changes.
C20_RollingBaseline ==
    /\ []((variant = "enhanced" /\ pc = "scan" /\ lastProbe.position > 0
             /\ lastProbe.unique) => baselineData = lastProbe.frame)
    /\ [][(ProbeCompletes /\ variant = "enhanced") =>
             LET frame   == lastProbe'.frame
                 flagged == 200 * Abs(baselineData - frame) > baselineData
             IN  /\ lastProbe'.unique = flagged
                 /\ flagged =>
                       /\ baselineData' = frame
                       /\ Len(capturedImages') = Len(capturedImages) + 1
                 /\ ~flagged =>
                       /\ baselineData' = baselineData
                       /\ capturedImages' = capturedImages]_vars
    /\ [][(ProbeCompletes /\ variant = "simplified") =>
             IF Len(capturedImages') = Len(capturedImages) + 1
             THEN 200 * Abs(baselineData - baselineData') > baselineData
             ELSE baselineData' = baselineData /\ capturedImages' = capturedImages]_vars
    /\ [][(pc = "scan" /\ pc' = "scan" /\ i' = i) => baselineData' = baselineData]_vars

\* the frame at position 2 differs from the baseline by less than the
\* threshold and is not kept; the frame at position 3 is compared with the
\* frame of position 1, still the baseline, and flagged
C20_Witness ==
    /\ variant = "enhanced"
    /\ pc = "scan"
    /\ i = 3
    /\ Len(capturedImages) = 2
    /\ capturedImages[1].position = 1
    /\ capturedImages[2].position = 3
    /\ lastProbe.unique
    /\ lastProbe.frame = 200
    /\ baselineData = 200
    /\ capturedImages[2].percentDiff = [num |-> 200, den |-> 202]

\* the files a step adds to the disk, and whether it left the others alone
NewFiles == DOMAIN disk' \ DOMAIN disk

OldFilesKept == \A n \in DOMAIN disk : n \in DOMAIN disk' /\ disk'[n] = disk[n]

\* C21: a probe whose frame is within the threshold of the baseline it is
\* compared with changes neither the baseline nor the list of unique
\* images, and the only files it adds are position_N.png and
\* date_display_N.png of its own position N; every file already on disk is
\* left as it was.  (The simplified variant keeps no record of the frame: a
\* probe of it that appends nothing is the one that was not flagged.)
C21_NonUniqueProbeOnlyShoots ==
    /\ [][(ProbeCompletes /\ variant = "enhanced"
              /\ 200 * Abs(baselineData - lastProbe'.frame) <= baselineData) =>
             /\ ~lastProbe'.unique
             /\ baselineData' = baselineData
             /\ capturedImages' = capturedImages
             /\ NewFiles = {PositionImageName(i + 1), DateDisplayName(i + 1)}
             /\ OldFilesKept]_vars
    /\ [][(ProbeCompletes /\ variant = "simplified"
              /\ Len(capturedImages') = Len(capturedImages)) =>
             /\ baselineData' = baselineData
             /\ capturedImages' = capturedImages
             /\ NewFiles = {PositionImageName(i + 1), DateDisplayName(i + 1)}
             /\ OldFilesKept]_vars

\* the frame at position 2 is one byte longer than the baseline of 200
\* bytes: exactly 0.5 percent, not flagged
C21_Witness ==
    /\ variant = "enhanced"
    /\ pc = "scan"
    /\ i = 2
    /\ lastProbe.position = 2
    /\ lastProbe.frame = 201
    /\ ~lastProbe.unique
    /\ baselineData = 200
    /\ capturedImages = <<>>
    /\ DOMAIN disk = {PositionImageName(1), DateDisplayName(1),
                      PositionImageName(2), DateDisplayName(2)}

\* the two shapes of a canonical label: YYYY-MM-DD and est_YYYY
IsCanonicalLabel(t) ==
    \/ /\ Len(t) = 10
       /\ \A k \in {1, 2, 3, 4, 6, 7, 9, 10} : IsDigit(t[k])
       /\ t[5] = "-" /\ t[8] = "-"
    \/ /\ Len(t) = 8
       /\ SubSeq(t, 1, 4) = <<"e", "s", "t", "_">>
       /\ \A k \in 5..8 : IsDigit(t[k])

\* C22: whenever extractDateFromImage returns a date for an OCR text, the
\* label the scan gives the sample is YYYY-MM-DD or est_YYYY, whatever run
\* of blanks and commas separates the parts of a month-name date.
C22_LabelsCanonical ==
    (dateOut.done /\ dateOut.ocrResult.date # NULL) =>
        IsCanonicalLabel(dateOut.label)

FirstOfKind(ps, kind) ==
    ps[CHOOSE k \in 1..Len(ps) :
           /\ ps[k].kind = kind
           /\ \A j \in 1..(k - 1) : ps[j].kind # kind].date

HasKind(ps, kind) == \E k \in 1..Len(ps) : ps[k].kind = kind

\* C24: of the dates in an OCR text, extractDateFromImage returns the first
\* "older"-prefixed slash date if there is one, wherever it stands; else the
\* first bare slash date, even when a month-name date stands before it;
\* else the first month-name date; else no date.
C24_PatternOrder ==
    (dateOut.done /\ "pieces" \in DOMAIN dateIn) =>
        LET ps == dateIn.pieces
        IN  dateOut.ocrResult.date =
                IF HasKind(ps, "older") THEN FirstOfKind(ps, "older")
                ELSE IF HasKind(ps, "slash") THEN FirstOfKind(ps, "slash")
                ELSE IF HasKind(ps, "month") THEN FirstOfKind(ps, "month")
                ELSE NULL

\* "Jan 19, 2024 12/5/2019 older~3/20/2016" reads as 3/20/2016
C24_Witness ==
    /\ dateOut.done
    /\ "pieces" \in DOMAIN dateIn
    /\ [k \in 1..Len(dateIn.pieces) |-> dateIn.pieces[k].kind]
           = <<"month", "slash", "older">>
    /\ dateIn.pieces[2].date = <<"1", "2", "/", "5", "/", "2", "0", "1", "9">>
    /\ dateOut.ocrResult.date = <<"3", "/", "2", "0", "/", "2", "0", "1", "6">>

\* the calls the claim names, as far as the variant makes them
NamedSteps(v) ==
    {op \in {"click", "screenshot", "crop", "ocr", "compare"} :
        \E k \in 1..Len(Steps(v)) : Steps(v)[k] = op}

\* C25: at most one call of the scan is pending at any time, and once the
\* click of a position has been issued, the click, the full-frame
\* screenshot, the date crop, the OCR call and the comparison of every
\* earlier position have completed.
C25_StepsSequential ==
    /\ Cardinality(inflight) <= 1
    /\ \A call \in inflight \cup settled :
          call.op = "click" =>
              \A q \in 1..(call.position - 1) : \A op \in NamedSteps(variant) :
                  [position |-> q, op |-> op] \in settled

\* the click of position 2 is pending; everything of position 1 is done
C25_Witness ==
    /\ variant = "enhanced"
    /\ inflight = {[position |-> 2, op |-> "click"]}
    /\ \A op \in NamedSteps("enhanced") : [position |-> 1, op |-> op] \in settled

\* C26: from the start of a simplified or enhanced session until its try
\* block ends (normally, or by an error, which ends the scope of the list),
\* every step leaves capturedImages as it is or is a probe of the scan that
\* adds one entry after the existing ones, which stay as they were and
\* where they were; the steps that write metadata.json and the report leave
\* the list untouched.
C26_AppendOnly ==
    [][(variant \in {"simplified", "enhanced"} /\ pc' # "catch") =>
          \/ capturedImages' = capturedImages
          \/ /\ pc = "scan" /\ pc' = "scan" /\ i' = i + 1
             /\ Len(capturedImages') = Len(capturedImages) + 1
             /\ \A k \in 1..Len(capturedImages) :
                   capturedImages'[k] = capturedImages[k]
             /\ metadata' = metadata /\ report' = report]_vars

C26_Witness ==
    /\ variant = "simplified"
    /\ Finished
    /\ raised = "none"
    /\ report.written
    /\ Len(capturedImages) = 3
    /\ [k \in 1..3 |-> capturedImages[k].position] = <<1, 2, 3>>
    /\ [k \in 1..3 |-> report.cards[k].position] = <<1, 2, 3>>

\* the frame of the k-th unique image: the next unique image was compared
\* against it (the denominator of its percentDiff), and the last one is
\* the baseline
FrameOfImage(k) ==
    IF k < Len(capturedImages)
    THEN capturedImages[k + 1].percentDiff.den
    ELSE baselineData

PerPositionFiles ==
    {PositionImageName(p) : p \in 1..numPoints(variant)}
        \cup {DateDisplayName(p) : p \in 1..numPoints(variant)}

Est2015File == UniqueImageName(<<"e", "s", "t", "_", "2", "0", "1", "5">>)

\* C27: in an enhanced session that has raised no error, two unique images
\* have the same file name exactly when they have the same label; the file
\* of a label holds the frame of the last image given that label; every
\* image keeps its own entry, so the unique-image files on disk are as many
\* as there are distinct labels, at most (and possibly fewer than) the
\* entries of capturedImages, which metadata.json counts and the report
\* shows one card each.
C27_SharedLabelOverwrites ==
    (variant = "enhanced" /\ raised = "none") =>
        LET n == Len(capturedImages)
        IN  /\ \A j \in 1..n, k \in 1..n :
                  (capturedImages[j].formattedDate = capturedImages[k].formattedDate)
                      = (capturedImages[j].uniquePath = capturedImages[k].uniquePath)
            /\ \A k \in 1..n :
                  /\ capturedImages[k].uniquePath \in DOMAIN disk
                  /\ (\A j \in (k + 1)..n :
                          capturedImages[j].formattedDate # capturedImages[k].formattedDate)
                        => disk[capturedImages[k].uniquePath] = FrameOfImage(k)
            /\ DOMAIN disk \ PerPositionFiles
                   = {capturedImages[k].uniquePath : k \in 1..n}
            /\ Cardinality(DOMAIN disk \ PerPositionFiles) <= n
            /\ metadata.written => metadata.capturedImages = n
            /\ report.written => Len(report.cards) = n

\* the frames at positions 1 and 2 are both unique and both labelled
\* est_2015: one file, holding the frame of position 2, and two cards
C27_Witness ==
    /\ variant = "enhanced"
    /\ Finished
    /\ raised = "none"
    /\ Len(capturedImages) = 2
    /\ capturedImages[1].uniquePath = Est2015File
    /\ capturedImages[2].uniquePath = Est2015File
    /\ capturedImages[1].position = 1 /\ capturedImages[2].position = 2
    /\ FrameOfImage(1) = 202
    /\ disk[Est2015File] = 200
    /\ DOMAIN disk \ PerPositionFiles = {Est2015File}
    /\ metadata.capturedImages = 2
    /\ report.cards[1].src = report.cards[2].src

\* C28: the k-th click of a scan (k = 1, 2, ...) is at the integer x nearest
\* to startX + (k - 1) * (1600 - startX) / n, halves rounding up, that is
\* x - 1/2 <= startX + (k - 1) * (1600 - startX) / n < x + 1/2, with
\* (startX, n) = (1200, 20), (1100, 30) and (400, 30) for the simplified,
\* enhanced and refined variants; the first click is at startX, every
\* click lies in [startX, 1600), and x = 1600 is never clicked.
C28_ProbePositions ==
    \A k \in 1..Len(clicks) :
        LET n      == IF variant = "simplified" THEN 20 ELSE 30
            startX == CASE variant = "simplified" -> 1200
                        [] variant = "enhanced"   -> 1100
                        [] variant = "refined"    -> 400
            x      == clicks[k].pointX
            exactN == n * startX + (k - 1) * (1600 - startX)
        IN  /\ 2 * n * x - n <= 2 * exactN
            /\ 2 * exactN < 2 * n * x + n
            /\ startX <= x /\ x < 1600
            /\ k = 1 => x = startX
            /\ k <= n

C28_Witness ==
    /\ variant = "refined"
    /\ Finished
    /\ raised = "none"
    /\ Len(clicks) = 30
    /\ clicks[1].pointX = 400
    /\ clicks[2].pointX = 440
    /\ clicks[30].pointX = 1560

\* attempts the activation loop of the refined variant can still make
AttemptsLeft == IF historyModeActivated THEN 0 ELSE 3 - retryCount

\* C29: in the refined variant the history icon is clicked at most 3 times;
\* the attempt at which "Deactivate Historical Imagery" is seen is the last
\* click (it follows retryCount unsuccessful ones and no click follows it);
\* a session that reaches the scan has clicked at least once; the
\* activation error is raised only after exactly 3 unsuccessful attempts and
\* 3 clicks; and the loop terminates, since every pass through it uses up
\* one of the attempts left, of which there are never less than none.
C29_RetryLoopBounded ==
    /\ [](variant = "refined" =>
            /\ iconClicks <= 3
            /\ retryCount <= 3
            /\ AttemptsLeft >= 0
            /\ historyModeActivated => iconClicks = retryCount + 1
            /\ pc = "scan" => (historyModeActivated /\ iconClicks >= 1)
            /\ raised = "activation" =>
                   (~historyModeActivated /\ retryCount = 3 /\ iconClicks = 3))
    /\ [][(variant = "refined" /\ pc = "activate" /\ pc' = "activate") =>
             /\ AttemptsLeft' < AttemptsLeft
             /\ iconClicks' = iconClicks + 1]_vars
    /\ [][(variant = "refined" /\ historyModeActivated) =>
             iconClicks' = iconClicks]_vars

\* two attempts without the button, the third shows it: three clicks
C29_Witness ==
    /\ variant = "refined"
    /\ pc = "scan"
    /\ historyModeActivated
    /\ retryCount = 2
    /\ iconClicks = 3
    /\ raised = "none"

----------------------------------------------------------------------------
\* the entries of the captured-dates record that hold the given date
EntriesOf(m, date) == {k \in 1..Len(m) : m[k].date = date}

\* C30: in the refined variant the captured-dates record has at most one
\* entry per extracted date string; a probe that read a date leaves exactly
\* one entry for it, carrying the position and image of that probe, in the
\* place the date first took, and leaves the entries of other dates alone; a
\* probe that read nothing (null or the empty string) leaves the record as it
\* was; the number of entries, which is the number of unique dates reported,
\* never exceeds the number of positions probed
C30_OneEntryPerDate ==
    /\ [](variant = "refined" =>
            /\ \A j, k \in 1..Len(capturedDates) :
                   capturedDates[j].date = capturedDates[k].date => j = k
            /\ \A k \in 1..Len(capturedDates) :
                   /\ Truthy(capturedDates[k].date)
                   /\ capturedDates[k].info.position \in 1..i
                   /\ capturedDates[k].info.imagePath = capturedDates[k].info.position
            /\ Len(capturedDates) <= i
            /\ i <= Len(clicks)
            /\ report.written =>
                   /\ report.total = Len(capturedDates)
                   /\ report.total <= Len(clicks))
    /\ [][(variant = "refined" /\ ProbeCompletes) =>
             IF detected' = NoneDetectedText
             THEN capturedDates' = capturedDates
             ELSE /\ \E k \in 1..Len(capturedDates') :
                        /\ EntriesOf(capturedDates', detected') = {k}
                        /\ capturedDates'[k].info.position = i + 1
                        /\ capturedDates'[k].info.imagePath = i + 1
                        /\ capturedDates'[k].info.x = PointX(variant, i)
                        /\ IF EntriesOf(capturedDates, detected') = {}
                           THEN k = Len(capturedDates) + 1
                           ELSE EntriesOf(capturedDates, detected') = {k}
                  /\ Len(capturedDates') =
                         IF EntriesOf(capturedDates, detected') = {}
                         THEN Len(capturedDates) + 1 ELSE Len(capturedDates)
                  /\ \A j \in 1..Len(capturedDates) :
                         capturedDates[j].date # detected' =>
                             capturedDates'[j] = capturedDates[j]]_vars

\* the slash date read at positions 1 and 3, another text at position 2 and
\* nothing at position 4: two entries, the first one moved on to position 3
C30_Witness ==
    /\ variant = "refined"
    /\ pc = "scan"
    /\ i = 4
    /\ detected = NoneDetectedText
    /\ Len(capturedDates) = 2
    /\ capturedDates[1].date = <<"3", "/", "2", "0", "/", "2", "0", "1", "6">>
    /\ capturedDates[1].info.position = 3
    /\ capturedDates[2].info.position = 2

====
